---------------------------- MODULE Spec2Model ----------------------------
(***************************************************************************)
(* Model of the FastAPI item service (src/app/app.py): the cache-aside     *)
(* read path get_data, the write path create_data, the lazy initializer    *)
(* ensure_table with its process-wide flag _table_ready, the startup hook, *)
(* the status and the health endpoints, run by concurrent request threads  *)
(* against a PostgreSQL database (READ COMMITTED transactions) and a Redis *)
(* cache whose availability changes under the environment's control.       *)
(*                                                                         *)
(* A step of a thread is one interaction with a dependency (a connect, a   *)
(* statement or group of statements of one transaction, a commit, a cache  *)
(* command) together with the local code around it.                        *)
(***************************************************************************)
EXTENDS Integers, Sequences, FiniteSets, TLC

VARIABLES
    APP_ENV,        \* "local" | "prod"                    (app.py:14)
    REDIS_HOST,     \* TRUE iff REDIS_HOST is set          (app.py:21)
    dbUp,           \* the database accepts connections
    redisUp,        \* the cache answers commands
    tableExists,    \* committed: relation "items" exists
    items,          \* committed rows of "items": id -> value
    txn,            \* per thread: the uncommitted work of its open transaction
    cache,          \* Redis keys: key -> value (entries with a live TTL)
    _table_ready,   \* the initialization flag             (app.py:79)
    pc,             \* per thread: position in its handler
    loc,            \* per thread: the handler's local variables
    last,           \* the call that completed most recently (observer)
    calls,          \* number of calls begun so far (bounded)
    events,         \* number of environment events so far (bounded)
    seedInserts,    \* committed transactions that inserted seed rows (observer)
    seedExecs,      \* executions of the seed INSERT statement (observer)
    schemaCreates,  \* committed transactions that created the relation (observer)
    everCommitted,  \* the <<id, value>> rows ever committed to "items" (observer)
    written,        \* ids some write was ever asked to store, or present at start
    workers         \* the request threads that serve calls in this run

vars == <<APP_ENV, REDIS_HOST, dbUp, redisUp, tableExists, items, txn, cache,
          _table_ready, pc, loc, last, calls, events, seedInserts, seedExecs,
          schemaCreates, everCommitted, written, workers>>

(***************************************************************************)
(* Bounds of the model.                                                    *)
(***************************************************************************)
NumThreads == 2     \* request threads
MaxCalls   == 3     \* calls of a run with one request thread
MaxEvents  == 2     \* environment events of a run with one request thread
ConcCalls  == 2     \* calls of a run with NumThreads request threads
ConcEvents == 1     \* environment events of such a run

Threads == 1 .. NumThreads

CallLimit  == IF workers = Threads THEN ConcCalls ELSE MaxCalls
EventLimit == IF workers = Threads THEN ConcEvents ELSE MaxEvents

(***************************************************************************)
(* Program constants.                                                      *)
(***************************************************************************)
\* The demo rows of ensure_table's INSERT.
SeedRows == (1 :> "Hello from PostgreSQL!") @@
            (2 :> "Multi-tier architecture works!") @@
            (3 :> "ECS Fargate is awesome!")
SeedIds == DOMAIN SeedRows

\* Requests the clients send: ItemCreate is {id: int, value: str}, so any
\* integer and any string (the empty one included) reach the handlers.
InputIds    == {1, 4}
InputValues == {"", "alpha"}

\* cache_key = f"item:{item_id}"
CacheKey(item_id) == <<"item:", item_id>>

\* Python's None / a missing row or key is the empty sequence, a present
\* value v is <<v>>.
None == <<>>
Some(v) == <<v>>

\* Python truthiness of an optional string: None and "" are falsy.
Truthy(opt) == opt # None /\ opt[1] # ""

\* d1 with the entries of d2 written over it.
Overlay(d1, d2) ==
    [k \in DOMAIN d1 \cup DOMAIN d2 |-> IF k \in DOMAIN d2 THEN d2[k] ELSE d1[k]]
EmptyMap == [k \in {} |-> ""]

\* The rows of a table as a set of <<id, value>> pairs.
Pairs(rows) == {<<i, rows[i]>> : i \in DOMAIN rows}

(***************************************************************************)
(* The database as one transaction sees it.                                *)
(***************************************************************************)
NoTxn == [created |-> FALSE, rows |-> EmptyMap]

\* Rows visible to thread t: the committed ones and its own uncommitted ones.
Visible(t) == Overlay(items, txn[t].rows)
TableVisible(t) == tableExists \/ txn[t].created

\* Another transaction holds an uncommitted row with one of these ids: a
\* statement inserting such an id waits for that transaction to end.
RowLocked(t, ids) ==
    \E u \in Threads \ {t} : DOMAIN txn[u].rows \cap ids # {}

\* Another transaction has created the relation and not yet committed.
CatalogLocked(t) == \E u \in Threads \ {t} : txn[u].created

(***************************************************************************)
(* Results of the handlers: the HTTP status and the body.                  *)
(***************************************************************************)
Result(status, kind, item_id, value, source, action) ==
    [status |-> status, kind |-> kind, id |-> item_id, value |-> value,
     source |-> source, action |-> action]

ItemResult(item_id, value, source) ==
    Result(200, "item", item_id, value, source, "n/a")
CreatedResult(item_id, value) ==
    Result(200, "item", item_id, value, "database", "created")
NotFoundResult == Result(200, "item not found", 0, "", "n/a", "n/a")
\* get_data: return {"error": "database unavailable"}, a plain dict: 200.
ReadUnavailableResult == Result(200, "database unavailable", 0, "", "n/a", "n/a")
\* create_data: JSONResponse(status_code=503, ...)
WriteUnavailableResult == Result(503, "database unavailable", 0, "", "n/a", "n/a")
\* create_data: except Exception: JSONResponse(status_code=500, ...)
WriteErrorResult == Result(500, "error", 0, "", "n/a", "n/a")
\* An exception that leaves the handler: the framework answers 500.
\* source names the dependency whose call raised it.
UnhandledResult(source) == Result(500, "unhandled exception", 0, "", source, "n/a")
HealthResult == Result(200, "ok", 0, "", "n/a", "n/a")
\* live_status: the body names the state of the database ("connected",
\* "disconnected", "skipped") and of Redis ("connected", "disconnected",
\* "not_configured"), carried here in the fields source and action.
StatusResult(db, redis) == Result(200, "status", 0, "", db, redis)
\* startup() has returned; it is no request, there is no HTTP status.
StartupReturned == Result(0, "startup returned", 0, "", "n/a", "n/a")

(***************************************************************************)
(* Thread-local state.                                                     *)
(***************************************************************************)
NoCall == [op |-> "none"]

IdleLoc == [op |-> "none", item_id |-> 0, value |-> "", r |-> FALSE,
            conn |-> "none", count |-> 0, touched |-> {},
            ev0 |-> 0, solo |-> TRUE, pre |-> NoCall, leak |-> FALSE,
            dbOk |-> TRUE, empty0 |-> TRUE,
            attempt |-> 0, ensured |-> "pending", did |-> {}]

Active(t) == pc[t] # "idle"
OthersIdle(t) == \A u \in Threads \ {t} : ~Active(u)

\* The locals of a call that begins now.  The observer fields: pre is the
\* call that completed just before, when no other call is running; solo says
\* that no other call ran during this one; ev0 is the number of environment
\* events so far; dbOk says that the database was reachable during the whole
\* call; empty0 that the cache held no entry for the item when it began;
\* ensured is what ensure_table() returned to the handler; did is what the
\* call did: "init_failed" (its ensure_table() returned with the flag not
\* set), "existed" (the upsert found a row with the id), "upsert" (the upsert
\* was executed), "commit" (its transaction was committed), "hit" (its
\* SELECT found the row), "setex" (it set the cache entry).  attempt counts the turns of startup()'s loop.
NewLoc(t, op, item_id, value) ==
    [IdleLoc EXCEPT !.op = op, !.item_id = item_id, !.value = value,
                    !.ev0 = events, !.solo = OthersIdle(t),
                    !.dbOk = (APP_ENV # "local" /\ dbUp),
                    !.empty0 = (CacheKey(item_id) \notin DOMAIN cache),
                    !.pre = IF OthersIdle(t) THEN [last EXCEPT !.pre = NoCall]
                            ELSE NoCall]

\* A call beginning while others run ends their being alone.
Disturb(t, newloc) ==
    [u \in Threads |-> IF u = t THEN newloc
                       ELSE IF Active(u) THEN [loc[u] EXCEPT !.solo = FALSE]
                       ELSE loc[u]]

\* The record of a completed call: its request, its result, what it reached
\* for, the number of environment events when it began (ev0) and completed
\* (ev1), the store and the cache as it left them.
Summary(l, result, storeAfter, cacheAfter) ==
    [op |-> l.op, id |-> l.item_id, value |-> l.value, result |-> result,
     touched |-> l.touched, ev0 |-> l.ev0, solo |-> l.solo, pre |-> l.pre,
     leak |-> l.leak, dbOk |-> l.dbOk, empty0 |-> l.empty0, r |-> l.r,
     ev1 |-> events, store |-> storeAfter, cache |-> cacheAfter,
     attempt |-> l.attempt, ensured |-> l.ensured, did |-> l.did]

InitLast == [op |-> "none", id |-> 0, value |-> "", result |-> HealthResult,
             touched |-> {}, ev0 |-> 0, solo |-> FALSE, pre |-> NoCall,
             leak |-> FALSE, dbOk |-> FALSE, empty0 |-> TRUE, r |-> FALSE,
             ev1 |-> 0, store |-> EmptyMap, cache |-> EmptyMap,
             attempt |-> 0, ensured |-> "pending", did |-> {}]


(***************************************************************************)
(* Connections.                                                            *)
(***************************************************************************)
\* get_db_connection(): None in local mode and when connecting fails.
GetDbConnection ==
    IF APP_ENV = "local" THEN "none"
    ELSE IF dbUp THEN "open" ELSE "none"

\* get_db_connection() reaches for the database unless in local mode.
DbTouched == IF APP_ENV = "local" THEN {} ELSE {"store"}

\* get_redis_client(): None when REDIS_HOST is unset or the ping fails.
GetRedisClient == REDIS_HOST /\ redisUp

RedisTouched == IF REDIS_HOST THEN {"cache"} ELSE {}

(***************************************************************************)
(* Completion of a call: the response goes out, the thread is idle again.  *)
(***************************************************************************)
Finish(t, l, result, storeAfter, cacheAfter) ==
    /\ pc' = [pc EXCEPT ![t] = "idle"]
    /\ loc' = [loc EXCEPT ![t] = IdleLoc]
    /\ last' = Summary(l, result, storeAfter, cacheAfter)

\* The handler goes on to label next with locals l.
Goto(t, next, l) ==
    /\ pc' = [pc EXCEPT ![t] = next]
    /\ loc' = [loc EXCEPT ![t] = l]
    /\ UNCHANGED last

\* A connection the code opened and abandons without close().
Abandon(l) == [l EXCEPT !.conn = "none", !.leak = TRUE]

(***************************************************************************)
(* ensure_table(), called first by get_data and create_data.               *)
(***************************************************************************)
AfterEnsure(op) ==
    IF op = "read" THEN "g_redis"
    ELSE IF op = "write" THEN "w_conn"
    ELSE "s_return"

\* ensure_table() has no return value: on every path, the early returns, the
\* success and the except clause, the caller receives None.
EnsureTableReturn(failed) == None

\* Lines 82-89: return if the flag is set; otherwise connect, return if that
\* fails.  Yields the next label and the locals.
EnsureEntryPc(op) ==
    IF _table_ready THEN AfterEnsure(op)
    ELSE IF GetDbConnection = "none" THEN AfterEnsure(op) ELSE "e_probe"

EnsureEntryLoc(l) ==
    IF _table_ready THEN [l EXCEPT !.ensured = EnsureTableReturn(FALSE)]
    ELSE IF GetDbConnection = "none"
    THEN [l EXCEPT !.touched = @ \cup DbTouched,
                   !.did = @ \cup {"init_failed"},
                   !.ensured = EnsureTableReturn(TRUE)]
    ELSE [l EXCEPT !.conn = GetDbConnection,
                   !.touched = @ \cup DbTouched]

\* The handler is entered: a call begins.
Enter(t, op, item_id, value) ==
    /\ pc[t] = "idle"
    /\ calls < CallLimit
    /\ calls' = calls + 1
    /\ pc' = [pc EXCEPT ![t] = EnsureEntryPc(op)]
    /\ loc' = Disturb(t, EnsureEntryLoc(NewLoc(t, op, item_id, value)))
    /\ UNCHANGED <<APP_ENV, REDIS_HOST, dbUp, redisUp, tableExists, items, txn,
                   cache, _table_ready, last, events, seedInserts, seedExecs, schemaCreates,
                   everCommitted,
                   workers>>

\* Mutant of EnsureFails: the except clause sets the flag.
EnsureFailsSettingFlag(t) ==
    /\ Goto(t, AfterEnsure(loc[t].op),
            [Abandon(loc[t]) EXCEPT !.did = @ \cup {"init_failed"},
                                    !.ensured = EnsureTableReturn(TRUE)])
    /\ _table_ready' = TRUE
    /\ UNCHANGED <<tableExists, items, txn, seedInserts, seedExecs, schemaCreates,
                   everCommitted>>

\* except Exception: print(...); the connection is not closed.
EnsureFails(t) ==
    /\ Goto(t, AfterEnsure(loc[t].op),
            [Abandon(loc[t]) EXCEPT !.did = @ \cup {"init_failed"},
                                    !.ensured = EnsureTableReturn(TRUE)])
    /\ UNCHANGED <<tableExists, items, txn, _table_ready, seedInserts, seedExecs, schemaCreates,
                   everCommitted>>

\* Lines 91-98: CREATE TABLE IF NOT EXISTS items; SELECT COUNT(*) FROM items.
EnsureProbe(t) ==
    /\ pc[t] = "e_probe"
    /\ IF loc[t].conn = "broken"
       THEN EnsureFails(t)
       ELSE /\ TableVisible(t) \/ ~CatalogLocked(t)
            /\ txn' = [txn EXCEPT ![t].created = ~tableExists]
            /\ LET n == Cardinality(DOMAIN Visible(t))
               IN Goto(t, IF n = 0 THEN "e_seed" ELSE "e_commit",
                       [loc[t] EXCEPT !.count = n])
            /\ UNCHANGED <<tableExists, items, _table_ready, seedInserts, seedExecs, schemaCreates,
                           everCommitted>>
    /\ UNCHANGED <<APP_ENV, REDIS_HOST, dbUp, redisUp, cache, calls, events, written,
                   workers>>

\* Mutant of SeedInsert: the seed rows are written over the rows that exist
\* (ON CONFLICT (id) DO UPDATE in place of DO NOTHING).
SeedInsertOverwriting(committed) == SeedRows

\* INSERT INTO items (id, value) VALUES <seed rows> ON CONFLICT DO NOTHING:
\* the rows it inserts, given the committed rows.
SeedInsert(committed) ==
    [i \in SeedIds \ DOMAIN committed |-> SeedRows[i]]

\* Lines 99-105: the seed INSERT, run when the count was 0.
EnsureSeed(t) ==
    /\ pc[t] = "e_seed"
    /\ IF loc[t].conn = "broken"
       THEN EnsureFails(t)
       ELSE /\ ~RowLocked(t, SeedIds)
            /\ txn' = [txn EXCEPT ![t].rows = Overlay(@, SeedInsert(items))]
            /\ seedExecs' = seedExecs + 1
            /\ Goto(t, "e_commit", loc[t])
            /\ UNCHANGED <<tableExists, items, _table_ready, seedInserts,
                           schemaCreates, everCommitted>>
    /\ UNCHANGED <<APP_ENV, REDIS_HOST, dbUp, redisUp, cache, calls, events, written,
                   workers>>

\* Lines 106-110: commit, close, set the flag.
EnsureCommit(t) ==
    /\ pc[t] = "e_commit"
    /\ IF loc[t].conn = "broken"
       THEN EnsureFails(t)
       ELSE /\ tableExists' = TRUE
            /\ items' = Overlay(items, txn[t].rows)
            /\ seedInserts' = seedInserts + (IF DOMAIN txn[t].rows # {} THEN 1 ELSE 0)
            /\ schemaCreates' = schemaCreates + (IF txn[t].created THEN 1 ELSE 0)
            /\ everCommitted' = everCommitted \cup Pairs(txn[t].rows)
            /\ txn' = [txn EXCEPT ![t] = NoTxn]
            /\ _table_ready' = TRUE
            /\ Goto(t, AfterEnsure(loc[t].op),
                    [loc[t] EXCEPT !.conn = "none",
                                   !.ensured = EnsureTableReturn(FALSE)])
            /\ UNCHANGED seedExecs
    /\ UNCHANGED <<APP_ENV, REDIS_HOST, dbUp, redisUp, cache, calls, events, written,
                   workers>>

(***************************************************************************)
(* get_data(item_id): GET /data/{item_id}.                                 *)
(***************************************************************************)
DbFrame == <<tableExists, items, txn, _table_ready, seedInserts, seedExecs, schemaCreates,
             everCommitted>>
EnvFrame == <<APP_ENV, REDIS_HOST, dbUp, redisUp, calls, events, written, workers>>

\* Lines 1018-1020: the handler is entered and calls ensure_table().
ReadEnter(t) ==
    \E item_id \in InputIds :
        /\ Enter(t, "read", item_id, "")
        /\ UNCHANGED written

\* Line 1023: r = get_redis_client().
ReadRedis(t) ==
    /\ pc[t] = "g_redis"
    /\ Goto(t, IF GetRedisClient THEN "g_get" ELSE "g_conn",
            [loc[t] EXCEPT !.r = GetRedisClient, !.touched = @ \cup RedisTouched])
    /\ UNCHANGED <<DbFrame, EnvFrame, cache>>

\* r.get(cache_key): the stored string, or None.
CacheGet(key) == IF key \in DOMAIN cache THEN Some(cache[key]) ELSE None

\* The test "if cached:" of line 1026.
CacheHit(cached) == Truthy(cached)

\* Lines 1025-1027: cached = r.get(cache_key); answer from the cache on a hit.
\* The command is outside any try: when it fails the exception leaves the
\* handler.
ReadCacheGet(t) ==
    /\ pc[t] = "g_get"
    /\ LET cached == CacheGet(CacheKey(loc[t].item_id))
       IN IF ~redisUp
          THEN Finish(t, loc[t], UnhandledResult("redis"), items, cache)
          ELSE IF CacheHit(cached)
          THEN Finish(t, loc[t], ItemResult(loc[t].item_id, cached[1], "redis"),
                      items, cache)
          ELSE Goto(t, "g_conn", loc[t])
    /\ UNCHANGED <<DbFrame, EnvFrame, cache>>

\* Lines 1030-1033: conn = get_db_connection(); "database unavailable" if None.
ReadConnect(t) ==
    /\ pc[t] = "g_conn"
    /\ LET l == [loc[t] EXCEPT !.conn = GetDbConnection,
                               !.touched = @ \cup DbTouched]
       IN IF GetDbConnection = "none"
          THEN Finish(t, l, ReadUnavailableResult, items, cache)
          ELSE Goto(t, "g_select", l)
    /\ UNCHANGED <<DbFrame, EnvFrame, cache>>

\* Mutant of SelectRow: a missing row reads as a row with an empty value.
SelectRowOrEmpty(t, item_id) ==
    IF item_id \in DOMAIN Visible(t) THEN Some(Visible(t)[item_id]) ELSE Some("")

\* SELECT value FROM items WHERE id = %s; fetchone().
SelectRow(t, item_id) ==
    IF item_id \in DOMAIN Visible(t) THEN Some(Visible(t)[item_id]) ELSE None

\* Lines 1035-1045 and 1050: the query (outside any try), close, not found
\* when there is no row; go on to the cache when r is a client.
ReadSelect(t) ==
    /\ pc[t] = "g_select"
    /\ LET row == SelectRow(t, loc[t].item_id)
       IN IF loc[t].conn = "broken" \/ ~TableVisible(t)
          THEN Finish(t, Abandon(loc[t]), UnhandledResult("database"), items, cache)
          ELSE IF row = None
          THEN Finish(t, [loc[t] EXCEPT !.conn = "none"], NotFoundResult,
                      items, cache)
          ELSE IF loc[t].r
          THEN Goto(t, "g_setex", [loc[t] EXCEPT !.conn = "none", !.value = row[1],
                                                 !.did = @ \cup {"hit"}])
          ELSE Finish(t, [loc[t] EXCEPT !.conn = "none", !.did = @ \cup {"hit"}],
                      ItemResult(loc[t].item_id, row[1], "database"), items, cache)
    /\ UNCHANGED <<DbFrame, EnvFrame, cache>>

\* r.setex(key, 60, value)
CacheSetex(key, value) == Overlay(cache, key :> value)

\* Lines 1047-1050: r.setex(cache_key, 60, value), outside any try.
ReadSetex(t) ==
    /\ pc[t] = "g_setex"
    /\ IF ~redisUp
       THEN /\ Finish(t, loc[t], UnhandledResult("redis"), items, cache)
            /\ UNCHANGED cache
       ELSE /\ cache' = CacheSetex(CacheKey(loc[t].item_id), loc[t].value)
            /\ Finish(t, [loc[t] EXCEPT !.did = @ \cup {"setex"}],
                      ItemResult(loc[t].item_id, loc[t].value, "database"),
                      items, cache')
    /\ UNCHANGED <<DbFrame, EnvFrame>>

(***************************************************************************)
(* create_data(item): POST /data.                                          *)
(***************************************************************************)
\* Lines 986-989: the handler is entered with a parsed ItemCreate and calls
\* ensure_table().
WriteEnter(t) ==
    \E item_id \in InputIds, value \in InputValues :
        /\ Enter(t, "write", item_id, value)
        /\ written' = written \cup {item_id}

\* Mutant of WriteConnect: the cache entry is set as soon as the connection
\* is there, before the upsert.
WriteConnectCachingFirst(t) ==
    /\ pc[t] = "w_conn"
    /\ LET l == [loc[t] EXCEPT !.conn = GetDbConnection,
                               !.touched = @ \cup DbTouched]
       IN IF GetDbConnection = "none"
          THEN /\ Finish(t, l, WriteUnavailableResult, items, cache)
               /\ UNCHANGED cache
          ELSE /\ Goto(t, "w_upsert", l)
               /\ cache' = CacheSetex(CacheKey(l.item_id), l.value)
    /\ UNCHANGED <<DbFrame, EnvFrame>>

\* Lines 989-995: conn = get_db_connection(); 503 if None.
WriteConnect(t) ==
    /\ pc[t] = "w_conn"
    /\ LET l == [loc[t] EXCEPT !.conn = GetDbConnection,
                               !.touched = @ \cup DbTouched]
       IN IF GetDbConnection = "none"
          THEN Finish(t, l, WriteUnavailableResult, items, cache)
          ELSE Goto(t, "w_upsert", l)
    /\ UNCHANGED <<DbFrame, EnvFrame, cache>>

\* Mutant of Upsert: ON CONFLICT (id) DO NOTHING, the row that exists is kept.
UpsertDoNothing(visible, item_id, value) ==
    IF item_id \in DOMAIN visible THEN EmptyMap ELSE item_id :> value

\* INSERT INTO items (id, value) VALUES (%s, %s)
\*   ON CONFLICT (id) DO UPDATE SET value = %s RETURNING id, value:
\* the rows it writes, given the rows the transaction sees.
Upsert(visible, item_id, value) == item_id :> value

\* Lines 997-1003: the upsert; an exception is answered with status 500.
WriteUpsert(t) ==
    /\ pc[t] = "w_upsert"
    /\ IF loc[t].conn = "broken" \/ ~TableVisible(t)
       THEN /\ Finish(t, Abandon(loc[t]), WriteErrorResult, items, cache)
            /\ UNCHANGED txn
       ELSE /\ ~RowLocked(t, {loc[t].item_id})
            /\ txn' = [txn EXCEPT ![t].rows =
                        Overlay(@, Upsert(Visible(t), loc[t].item_id, loc[t].value))]
            /\ Goto(t, "w_commit",
                    [loc[t] EXCEPT !.did = @ \cup {"upsert"} \cup
                        (IF loc[t].item_id \in DOMAIN Visible(t)
                         THEN {"existed"} ELSE {})])
    /\ UNCHANGED <<tableExists, items, _table_ready, seedInserts, seedExecs, schemaCreates,
                   everCommitted,
                   EnvFrame, cache>>

\* Lines 1004-1006: conn.commit(); cur.close(); conn.close().
WriteCommit(t) ==
    /\ pc[t] = "w_commit"
    /\ IF loc[t].conn = "broken"
       THEN /\ Finish(t, Abandon(loc[t]), WriteErrorResult, items, cache)
            /\ UNCHANGED <<items, txn, everCommitted>>
       ELSE /\ items' = Overlay(items, txn[t].rows)
            /\ everCommitted' = everCommitted \cup Pairs(txn[t].rows)
            /\ txn' = [txn EXCEPT ![t] = NoTxn]
            /\ Goto(t, "w_redis", [loc[t] EXCEPT !.conn = "none",
                                                 !.did = @ \cup {"commit"}])
    /\ UNCHANGED <<tableExists, _table_ready, seedInserts, seedExecs, schemaCreates, EnvFrame, cache>>

\* Lines 1009 and 1013: r = get_redis_client(); without a client the handler
\* returns the row.
WriteRedis(t) ==
    /\ pc[t] = "w_redis"
    /\ LET l == [loc[t] EXCEPT !.r = GetRedisClient, !.touched = @ \cup RedisTouched]
       IN IF GetRedisClient
          THEN Goto(t, "w_setex", l)
          ELSE Finish(t, l, CreatedResult(l.item_id, l.value), items, cache)
    /\ UNCHANGED <<DbFrame, EnvFrame, cache>>

\* Lines 1010-1015: r.setex(...) inside the try, then the row is returned; an
\* exception of setex is answered with status 500.
WriteSetex(t) ==
    /\ pc[t] = "w_setex"
    /\ IF ~redisUp
       THEN /\ Finish(t, loc[t], WriteErrorResult, items, cache)
            /\ UNCHANGED cache
       ELSE /\ cache' = CacheSetex(CacheKey(loc[t].item_id), loc[t].value)
            /\ Finish(t, [loc[t] EXCEPT !.did = @ \cup {"setex"}],
                      CreatedResult(loc[t].item_id, loc[t].value), items, cache')
    /\ UNCHANGED <<DbFrame, EnvFrame>>

(***************************************************************************)
(* health(): GET /health.                                                  *)
(***************************************************************************)
\* Mutant of Health: a health check that probes the database and answers 503
\* when it cannot connect.
HealthProbingStore(t) ==
    /\ pc[t] = "idle"
    /\ calls < CallLimit
    /\ calls' = calls + 1
    /\ pc' = pc
    /\ loc' = Disturb(t, IdleLoc)
    /\ last' = Summary([NewLoc(t, "health", 0, "") EXCEPT !.touched = DbTouched],
                       IF GetDbConnection = "none" THEN WriteUnavailableResult
                       ELSE HealthResult,
                       items, cache)
    /\ UNCHANGED <<APP_ENV, REDIS_HOST, dbUp, redisUp, tableExists, items, txn,
                   cache, _table_ready, events, seedInserts, seedExecs,
                   schemaCreates, everCommitted, written, workers>>

\* Lines 974-983: return {"status": "ok"}.
Health(t) ==
    /\ pc[t] = "idle"
    /\ calls < CallLimit
    /\ calls' = calls + 1
    /\ pc' = pc
    /\ loc' = Disturb(t, IdleLoc)
    /\ last' = Summary(NewLoc(t, "health", 0, ""), HealthResult, items, cache)
    /\ UNCHANGED <<APP_ENV, REDIS_HOST, dbUp, redisUp, tableExists, items, txn,
                   cache, _table_ready, events, seedInserts, seedExecs, schemaCreates,
                   everCommitted, written,
                   workers>>

(***************************************************************************)
(* startup(): the on_event("startup") hook, run once by the process before *)
(* it serves requests.                                                     *)
(***************************************************************************)
\* for attempt in range(5)
StartupAttempts == 5

\* Mutant of StartupConnect: the loop retries until the database answers
\* (while True in place of range(5)).
StartupConnectUntilUp(t) ==
    /\ pc[t] = "s_connect"
    /\ LET l == [loc[t] EXCEPT !.attempt = @ + 1, !.touched = @ \cup DbTouched]
       IN IF GetDbConnection # "none" THEN Goto(t, "s_ensure", l)
          ELSE Goto(t, "s_connect", l)
    /\ UNCHANGED <<tableExists, items, txn, _table_ready, seedInserts, seedExecs,
                   schemaCreates,
                   everCommitted, APP_ENV, REDIS_HOST, dbUp, redisUp, calls,
                   events, written, workers, cache>>

\* Lines 126-135: one turn of the loop.  conn = get_db_connection(); with a
\* connection: conn.close() and on to ensure_table(); without: sleep(3) and
\* the next turn, or the end of the loop after the last one.
StartupConnect(t) ==
    /\ pc[t] = "s_connect"
    /\ LET l == [loc[t] EXCEPT !.attempt = @ + 1, !.touched = @ \cup DbTouched]
       IN IF GetDbConnection # "none" THEN Goto(t, "s_ensure", l)
          ELSE IF l.attempt < StartupAttempts THEN Goto(t, "s_connect", l)
          ELSE Goto(t, "s_return", l)
    /\ UNCHANGED <<DbFrame, EnvFrame, cache>>

\* Line 130: ensure_table() is called (its lines 82-89 run here).
StartupEnsure(t) ==
    /\ pc[t] = "s_ensure"
    /\ Goto(t, EnsureEntryPc("startup"),
            EnsureEntryLoc([loc[t] EXCEPT !.did = @ \cup {"ensure_table"}]))
    /\ UNCHANGED <<DbFrame, EnvFrame, cache>>

\* Lines 131 and 135: startup() returns, the process serves requests.
StartupReturn(t) ==
    /\ pc[t] = "s_return"
    /\ Finish(t, loc[t], StartupReturned, items, cache)
    /\ UNCHANGED <<DbFrame, EnvFrame, cache>>

(***************************************************************************)
(* live_status(): GET /status.                                             *)
(***************************************************************************)
\* Lines 143-151 and 164-165: conn = get_db_connection(), inside the try.
\* The state of the database found so far is kept in the local value.
StatusEnter(t) ==
    /\ pc[t] = "idle"
    /\ calls < CallLimit
    /\ calls' = calls + 1
    /\ pc' = [pc EXCEPT ![t] = IF GetDbConnection = "none" THEN "st_redis"
                                ELSE "st_query"]
    /\ loc' = Disturb(t, [NewLoc(t, "status", 0,
                                 IF APP_ENV = "local" THEN "skipped"
                                 ELSE "disconnected")
                            EXCEPT !.conn = GetDbConnection,
                                   !.touched = DbTouched])
    /\ UNCHANGED <<APP_ENV, REDIS_HOST, dbUp, redisUp, tableExists, items, txn,
                   cache, _table_ready, last, events, seedInserts, seedExecs,
                   schemaCreates, everCommitted, written, workers>>

\* Lines 152-163 and 166-167: SELECT version(); SELECT COUNT(*) FROM items;
\* close.  An exception is kept as the detail; the connection is not closed.
StatusQuery(t) ==
    /\ pc[t] = "st_query"
    /\ IF loc[t].conn = "broken" \/ ~TableVisible(t)
       THEN Goto(t, "st_redis", Abandon(loc[t]))
       ELSE Goto(t, "st_redis",
                 [loc[t] EXCEPT !.conn = "none", !.value = "connected",
                                !.count = Cardinality(DOMAIN Visible(t))])
    /\ UNCHANGED <<DbFrame, EnvFrame, cache>>

\* Lines 169-182: r = get_redis_client(); r.info("server"); r.dbsize(),
\* inside a try.
RedisStatus ==
    IF ~REDIS_HOST THEN "not_configured"
    ELSE IF redisUp THEN "connected" ELSE "disconnected"

\* Mutant of StatusRedis: the status call empties the cache it reports on
\* (r.flushdb() in place of r.dbsize()).
StatusRedisFlushing(t) ==
    /\ pc[t] = "st_redis"
    /\ cache' = IF GetRedisClient THEN EmptyMap ELSE cache
    /\ Finish(t, [loc[t] EXCEPT !.r = GetRedisClient,
                                !.touched = @ \cup RedisTouched],
              StatusResult(loc[t].value, RedisStatus), items, cache')
    /\ UNCHANGED <<DbFrame, EnvFrame>>

\* Lines 169-184: the state of Redis, and the answer.
StatusRedis(t) ==
    /\ pc[t] = "st_redis"
    /\ Finish(t, [loc[t] EXCEPT !.r = GetRedisClient,
                                !.touched = @ \cup RedisTouched],
              StatusResult(loc[t].value, RedisStatus), items, cache)
    /\ UNCHANGED <<DbFrame, EnvFrame, cache>>

(***************************************************************************)
(* The environment: the dependencies fail and recover, cache entries       *)
(* reach their time-to-live.                                               *)
(***************************************************************************)
EnvEvent ==
    /\ events < EventLimit
    /\ events' = events + 1
    /\ UNCHANGED <<APP_ENV, REDIS_HOST, _table_ready, pc, last, calls,
                   seedInserts, seedExecs, schemaCreates,
                   everCommitted, written, workers>>

\* Mutant of DbDown: losing the database also resets the initialization
\* flag.
DbDownResettingFlag ==
    /\ dbUp
    /\ events < EventLimit
    /\ events' = events + 1
    /\ dbUp' = FALSE
    /\ _table_ready' = FALSE
    /\ txn' = [t \in Threads |-> NoTxn]
    /\ loc' = [t \in Threads |->
                 [loc[t] EXCEPT !.conn = IF @ = "open" THEN "broken" ELSE @,
                                !.dbOk = IF Active(t) THEN FALSE ELSE @]]
    /\ UNCHANGED <<APP_ENV, REDIS_HOST, pc, last, calls, seedInserts, seedExecs,
                   schemaCreates,
                   everCommitted, written, workers, redisUp, tableExists, items,
                   cache>>

\* The database goes away: open connections break, their transactions are
\* rolled back.
DbDown ==
    /\ dbUp
    /\ EnvEvent
    /\ dbUp' = FALSE
    /\ txn' = [t \in Threads |-> NoTxn]
    /\ loc' = [t \in Threads |->
                 [loc[t] EXCEPT !.conn = IF @ = "open" THEN "broken" ELSE @,
                                !.dbOk = IF Active(t) THEN FALSE ELSE @]]
    /\ UNCHANGED <<redisUp, tableExists, items, cache>>

DbUp ==
    /\ ~dbUp
    /\ EnvEvent
    /\ dbUp' = TRUE
    /\ UNCHANGED <<redisUp, tableExists, items, txn, cache, loc>>

RedisDown ==
    /\ redisUp
    /\ EnvEvent
    /\ redisUp' = FALSE
    /\ UNCHANGED <<dbUp, tableExists, items, txn, cache, loc>>

RedisUp ==
    /\ ~redisUp
    /\ EnvEvent
    /\ redisUp' = TRUE
    /\ UNCHANGED <<dbUp, tableExists, items, txn, cache, loc>>

\* The 60 seconds of setex(key, 60, value) have passed for a key.
Expire ==
    \E key \in DOMAIN cache :
        /\ EnvEvent
        /\ cache' = [k \in DOMAIN cache \ {key} |-> cache[k]]
        /\ UNCHANGED <<dbUp, redisUp, tableExists, items, txn, loc>>

(***************************************************************************)
(* Initial states: the deployment and what the database holds.  Spec and   *)
(* SpecConc begin when the process begins to serve requests with the flag  *)
(* not set, that is after startup() gave up ("tables will be created on    *)
(* first request"); the states in which the flag is set are reached by the *)
(* first call's ensure_table().  SpecBoot and SpecStartup begin when the   *)
(* process is started.                                                     *)
(***************************************************************************)
\* The relation is absent; it exists and is empty; an earlier run of the
\* service left rows in it.
InitialStores ==
    { [exists |-> FALSE, rows |-> EmptyMap],
      [exists |-> TRUE,  rows |-> EmptyMap],
      [exists |-> TRUE,  rows |-> Overlay(SeedRows, 1 :> "alpha")] }

\* The deployment and the dependencies, with the flag as the module sets it.
Deployment ==
    /\ APP_ENV \in {"prod", "local"}
    /\ REDIS_HOST \in BOOLEAN
    /\ dbUp \in BOOLEAN
    /\ redisUp \in BOOLEAN
    /\ REDIS_HOST \/ redisUp
    /\ APP_ENV = "local" => dbUp
    /\ \E s \in InitialStores :
          /\ APP_ENV = "local" => ~s.exists
          /\ tableExists = s.exists
          /\ items = s.rows
    /\ txn = [t \in Threads |-> NoTxn]
    /\ _table_ready = FALSE
    /\ last = InitLast
    /\ events = 0
    /\ seedInserts = 0
    /\ seedExecs = 0
    /\ schemaCreates = 0
    /\ everCommitted = Pairs(items)
    /\ written = DOMAIN items

Start ==
    /\ Deployment
    /\ cache = EmptyMap
    /\ pc = [t \in Threads |-> "idle"]
    /\ loc = [t \in Threads |-> IdleLoc]
    /\ calls = 0

Next ==
    \/ \E t \in workers : ReadEnter(t)
    \/ \E t \in workers : ReadRedis(t)
    \/ \E t \in workers : ReadCacheGet(t)
    \/ \E t \in workers : ReadConnect(t)
    \/ \E t \in workers : ReadSelect(t)
    \/ \E t \in workers : ReadSetex(t)
    \/ \E t \in workers : WriteEnter(t)
    \/ \E t \in workers : WriteConnect(t)
    \/ \E t \in workers : WriteUpsert(t)
    \/ \E t \in workers : WriteCommit(t)
    \/ \E t \in workers : WriteRedis(t)
    \/ \E t \in workers : WriteSetex(t)
    \/ \E t \in workers : EnsureProbe(t)
    \/ \E t \in workers : EnsureSeed(t)
    \/ \E t \in workers : EnsureCommit(t)
    \/ \E t \in workers : Health(t)
    \/ DbDown
    \/ DbUp
    \/ RedisDown
    \/ RedisUp
    \/ Expire

\* One request thread serves the calls one after the other.
Init == Start /\ workers = {1}
Spec == Init /\ [][Next]_vars

\* NumThreads request threads serve calls concurrently.
InitConc == Start /\ workers = Threads
SpecConc == InitConc /\ [][Next]_vars

(***************************************************************************)
(* The process from its start: startup() runs first, as the first call,    *)
(* then one thread serves the requests, GET /status among them.  Redis     *)
(* outlives the process: it is empty, or it holds an entry that an earlier *)
(* run of the service cached less than 60 seconds ago.                     *)
(***************************************************************************)
LeftoverCaches == {EmptyMap, CacheKey(1) :> "alpha"}

InitBoot ==
    /\ Deployment
    /\ workers = {1}
    /\ cache \in LeftoverCaches
    /\ ~REDIS_HOST => cache = EmptyMap
    /\ calls = 1
    /\ pc = [t \in Threads |-> IF t = 1 THEN "s_connect" ELSE "idle"]
    /\ loc = [t \in Threads |->
                IF t = 1 THEN NewLoc(t, "startup", 0, "") ELSE IdleLoc]

NextBoot ==
    \/ \E t \in workers : StartupConnect(t)
    \/ \E t \in workers : StartupEnsure(t)
    \/ \E t \in workers : StartupReturn(t)
    \/ \E t \in workers : StatusEnter(t)
    \/ \E t \in workers : StatusQuery(t)
    \/ \E t \in workers : StatusRedis(t)
    \/ Next

SpecBoot == InitBoot /\ [][NextBoot]_vars

(***************************************************************************)
(* startup() by itself, up to its return.  The thread that runs it keeps   *)
(* running: each of its steps is a connect bounded by connect_timeout, a   *)
(* sleep(3), or a statement on a connection that answers or breaks.        *)
(***************************************************************************)
StartupStep ==
    \E t \in workers :
        \/ StartupConnect(t)
        \/ StartupEnsure(t)
        \/ EnsureProbe(t)
        \/ EnsureSeed(t)
        \/ EnsureCommit(t)
        \/ StartupReturn(t)

NextStartup ==
    \/ \E t \in workers : StartupConnect(t)
    \/ \E t \in workers : StartupEnsure(t)
    \/ \E t \in workers : EnsureProbe(t)
    \/ \E t \in workers : EnsureSeed(t)
    \/ \E t \in workers : EnsureCommit(t)
    \/ \E t \in workers : StartupReturn(t)
    \/ DbDown
    \/ DbUp
    \/ RedisDown
    \/ RedisUp
    \/ Expire

SpecStartup == InitBoot /\ [][NextStartup]_vars /\ WF_vars(StartupStep)

(***************************************************************************)
(* Vocabulary of the properties.  last is the call that completed most     *)
(* recently; last.pre is the call that completed just before last began.   *)
(***************************************************************************)
\* last ran alone, right after the call last.pre, which also ran alone.
Consecutive ==
    /\ last.op # "none"
    /\ last.solo
    /\ last.pre.op # "none"
    /\ last.pre.solo

\* The store is configured and up, the cache is configured and up.
AllAvailable == APP_ENV # "local" /\ dbUp /\ REDIS_HOST /\ redisUp

\* ... and nothing happened in the environment since call c began.
QuietSince(c) == AllAvailable /\ events = c.ev0

IsItem(result) == result.status = 200 /\ result.kind = "item"

\* Nothing happened in the environment while call c ran.
Undisturbed(c) == c.ev1 = c.ev0

\* The ensure_table() of thread t's call fails in this step.
InitFails(t) == "init_failed" \in loc'[t].did \ loc[t].did

\* A read or a write of thread t begins in this step.
BeginsCall(t) == pc[t] = "idle" /\ loc'[t].op \in {"read", "write"}

(***************************************************************************)
(* C1: read-after-write.  After write(id, value) has returned success, an  *)
(* immediately following read(id) that answers with an item answers with   *)
(* exactly that value, from the cache or the store (stated for a written   *)
(* value that is not the empty string).                                    *)
(* Violated: a write made while the cache is unreachable leaves the older  *)
(* cache entry in place, and the next read serves it.                      *)
(***************************************************************************)
C1_ReadAfterWrite ==
    ( /\ Consecutive
      /\ last.op = "read"
      /\ last.pre.op = "write"
      /\ last.pre.id = last.id
      /\ last.pre.value # ""
      /\ IsItem(last.pre.result)
      /\ IsItem(last.result) )
    => /\ last.result.value = last.pre.value
       /\ last.result.source \in {"redis", "database"}

(***************************************************************************)
(* C2: with the store reachable during the whole call, a read or a write   *)
(* succeeds whatever the cache does: no failure of the cache is surfaced   *)
(* as an error, and an item answered without a cache client is reported    *)
(* with the store as its source.                                           *)
(* Violated: r.get and r.setex of get_data are outside any try, and the    *)
(* r.setex of create_data is inside the try that answers 500.              *)
(***************************************************************************)
C2_CacheFailureAbsorbed ==
    (last.op \in {"read", "write"} /\ last.dbOk)
    => /\ last.result.status = 200
       /\ last.result.kind \in {"item", "item not found"}
       /\ (IsItem(last.result) /\ ~last.r) => last.result.source = "database"

(***************************************************************************)
(* C3: when the store is unavailable at some point of a read, the read     *)
(* answers with the explicit unavailable result: no exception of the store *)
(* leaves the handler, and the answer is not "item not found".             *)
(* Violated: the SELECT of get_data is outside any try.                    *)
(***************************************************************************)
C3_StoreFailureExplicit ==
    (last.op = "read" /\ ~last.dbOk)
    => /\ last.result # UnhandledResult("database")
       /\ last.result # NotFoundResult

(***************************************************************************)
(* C4: whatever the interleaving of concurrent first callers of            *)
(* ensure_table, the initialization takes effect at most once: at most one *)
(* committed transaction creates the relation, at most one inserts seed    *)
(* rows, and once the flag is set on a store that held no rows and saw no  *)
(* write, exactly one seed insertion was performed.                        *)
(***************************************************************************)
C4_InitEffectsOnce ==
    /\ schemaCreates <= 1
    /\ seedInserts <= 1
    /\ (_table_ready /\ written = {}) => seedInserts = 1

\* Two callers raced through the seed INSERT and the flag is set.
C4_Witness ==
    /\ seedExecs = 2
    /\ seedInserts = 1
    /\ _table_ready
    /\ written = {}

(***************************************************************************)
(* C5: a read of an id that was never written and is not a seed row never  *)
(* answers with an item and answers "item not found" when the store was    *)
(* reachable and the environment did not change during the read; the       *)
(* cache holds no entry for such an id.                                    *)
(***************************************************************************)
NeverStored(item_id) == item_id \notin written \cup SeedIds

C5_NeverWrittenNotFound ==
    /\ \A item_id \in InputIds :
          NeverStored(item_id) => CacheKey(item_id) \notin DOMAIN cache
    /\ (last.op = "read" /\ NeverStored(last.id))
       => /\ ~IsItem(last.result)
          /\ (last.dbOk /\ Undisturbed(last)) => last.result = NotFoundResult

C5_Witness ==
    /\ last.op = "read"
    /\ NeverStored(last.id)
    /\ last.result = NotFoundResult
    /\ last.dbOk
    /\ _table_ready
    /\ "cache" \in last.touched
    /\ CacheKey(last.id) \notin DOMAIN cache

(***************************************************************************)
(* C6: write idempotence.  After write(id, v) has succeeded, an            *)
(* immediately following write(id, v) leaves the store as the first one    *)
(* left it: one row for id, holding v, and every other row unchanged.      *)
(***************************************************************************)
C6_WriteIdempotent ==
    ( /\ Consecutive
      /\ last.op = "write"
      /\ last.pre.op = "write"
      /\ last.pre.id = last.id
      /\ last.pre.value = last.value
      /\ IsItem(last.pre.result) )
    => /\ last.store = last.pre.store
       /\ last.id \in DOMAIN last.store
       /\ last.store[last.id] = last.value

\* The second write succeeded too, on a row that held another value before.
C6_Witness ==
    /\ Consecutive
    /\ last.op = "write"
    /\ last.pre.op = "write"
    /\ last.pre.id = last.id
    /\ last.pre.value = last.value
    /\ IsItem(last.pre.result)
    /\ IsItem(last.result)
    /\ last.value # ""
    /\ last.id \in SeedIds
    /\ last.store[last.id] = last.value

(***************************************************************************)
(* C7: with store and cache available and no cache entry for id, a read    *)
(* of an existing item answers from the store and leaves the cache entry   *)
(* holding the value; the read that follows, with no expiry in between, is *)
(* answered from the cache with the same value.                            *)
(* Violated: an item whose value is the empty string is cached, and the    *)
(* test "if cached:" takes the cached empty string for a miss.             *)
(***************************************************************************)
C7_SecondReadFromCache ==
    ( /\ Consecutive
      /\ last.op = "read"
      /\ last.pre.op = "read"
      /\ last.pre.id = last.id
      /\ last.pre.empty0
      /\ IsItem(last.pre.result)
      /\ QuietSince(last.pre) )
    => /\ last.pre.result.source = "database"
       /\ CacheKey(last.id) \in DOMAIN last.pre.cache
       /\ last.pre.cache[CacheKey(last.id)] = last.pre.result.value
       /\ last.result = ItemResult(last.id, last.pre.result.value, "redis")

\* What does hold of the code: the same for an item whose value is not the
\* empty string.
C7_HoldsForNonEmptyValue ==
    (last.pre.op = "read" /\ IsItem(last.pre.result) /\ last.pre.result.value = "")
    \/ C7_SecondReadFromCache

(***************************************************************************)
(* C8: with store and cache available, a successful write is written       *)
(* through to the cache: the read that follows, with no expiry in between, *)
(* is answered from the cache with the written value and does not reach    *)
(* for the store.                                                          *)
(* Violated: a written empty string is cached, and "if cached:" takes it   *)
(* for a miss.                                                             *)
(***************************************************************************)
C8_WriteThrough ==
    ( /\ Consecutive
      /\ last.op = "read"
      /\ last.pre.op = "write"
      /\ last.pre.id = last.id
      /\ IsItem(last.pre.result)
      /\ QuietSince(last.pre) )
    => /\ last.result = ItemResult(last.id, last.pre.value, "redis")
       /\ "store" \notin last.touched

\* What does hold of the code: the same for a written value that is not the
\* empty string.
C8_HoldsForNonEmptyValue ==
    (last.pre.op = "write" /\ last.pre.value = "") \/ C8_WriteThrough

(***************************************************************************)
(* C9: a health call answers 200 in whatever state it is made, reaches for *)
(* neither the store nor the cache, and changes neither the                *)
(* initialization flag, the store, the cache nor any connection.           *)
(***************************************************************************)
\* A call that begins and completes in one step: only health does.
HealthStep == calls' = calls + 1 /\ pc' = pc

C9_HealthIsInert ==
    [][HealthStep =>
          /\ last'.op = "health"
          /\ last'.result = HealthResult
          /\ last'.touched = {}
          /\ UNCHANGED <<_table_ready, tableExists, items, txn, cache, dbUp, redisUp>>
          /\ \A t \in Threads : loc'[t].conn = loc[t].conn]_vars

\* Health answered while store and cache were down and nothing initialized.
C9_Witness ==
    /\ last.op = "health"
    /\ last.result = HealthResult
    /\ ~dbUp
    /\ ~redisUp
    /\ ~_table_ready
    /\ events = 0

(***************************************************************************)
(* C10: a data operation that answers "database unavailable" because the   *)
(* store cannot be reached answers with a status of the 5xx class.         *)
(* Violated: get_data returns the error body as a plain dict, status 200.  *)
(***************************************************************************)
C10_UnavailableIs5xx ==
    ( /\ last.op \in {"read", "write"}
      /\ APP_ENV # "local"
      /\ last.result.kind = "database unavailable" )
    => last.result.status \in 500 .. 599

(***************************************************************************)
(* C11: a successful write reports the action "updated" when the upsert    *)
(* found a row with the id and "created" when it found none.               *)
(* Violated: create_data returns the literal "created" in either case.     *)
(***************************************************************************)
C11_ActionReflectsPriorRow ==
    (last.op = "write" /\ IsItem(last.result))
    => last.result.action =
          IF "existed" \in last.did THEN "updated" ELSE "created"

(***************************************************************************)
(* C12: the initialization flag never regresses: a step taken with         *)
(* _table_ready set leaves it set, whichever of startup, ensure_table,     *)
(* read, write, status and health takes it and whatever the dependencies   *)
(* do.                                                                     *)
(***************************************************************************)
C12_ReadyNeverRegresses == [][_table_ready => _table_ready']_vars

\* The flag was set by startup(); the database has gone away since and a
\* request has been served.
C12_Witness ==
    /\ _table_ready
    /\ ~dbUp
    /\ last.op \in {"read", "write", "status", "health"}
    /\ last.pre.op = "startup"
    /\ "ensure_table" \in last.pre.did
    /\ "init_failed" \notin last.pre.did

(***************************************************************************)
(* C13: a read or a write that begins with the flag set passes             *)
(* ensure_table() without a connection and without a statement, and no     *)
(* statement of the initialization (the CREATE TABLE and COUNT probe, the  *)
(* seed INSERT) is executed once the flag is set.                          *)
(* Violated: ensure_table() tests the flag without a lock; a caller that   *)
(* tested it before another caller set it runs its probe after.            *)
(***************************************************************************)
\* Thread t's ensure_table() executes its probe or its seed INSERT.
RunsInitStatement(t) ==
    /\ pc[t] \in {"e_probe", "e_seed"}
    /\ pc'[t] \in {"e_seed", "e_commit"}

ReturnsAtOnce(t) ==
    /\ pc'[t] = AfterEnsure(loc'[t].op)
    /\ loc'[t].conn = "none"
    /\ loc'[t].touched = {}

C13_NoInitWorkOnceReady ==
    [][\A t \in Threads :
          /\ (BeginsCall(t) /\ _table_ready) => ReturnsAtOnce(t)
          /\ RunsInitStatement(t) => ~_table_ready]_vars

\* What does hold of the code: the call that finds the flag set does no I/O.
C13_ReadyCallReturnsAtOnce ==
    [][\A t \in Threads :
          (BeginsCall(t) /\ _table_ready) => ReturnsAtOnce(t)]_vars

(***************************************************************************)
(* C14: when ensure_table() returns to a handler without having set the    *)
(* flag, the flag is still unset, the handler has received something       *)
(* other than what a successful ensure_table() returns, and a call that    *)
(* begins with the flag unset attempts the initialization again.           *)
(* Violated: ensure_table() returns None on every path, so its caller      *)
(* cannot tell the failure from the success.                               *)
(***************************************************************************)
C14_FailedInitIsSignalled ==
    [][\A t \in Threads :
          /\ (InitFails(t) /\ APP_ENV # "local")
                => /\ ~_table_ready'
                   /\ loc'[t].ensured # EnsureTableReturn(FALSE)
          /\ (BeginsCall(t) /\ ~_table_ready)
                => loc'[t].touched = DbTouched]_vars

\* What does hold of the code: the flag stays unset and the next call tries
\* again.
C14_StaysRetryable ==
    [][\A t \in Threads :
          /\ InitFails(t) => ~_table_ready'
          /\ (BeginsCall(t) /\ ~_table_ready)
                => loc'[t].touched = DbTouched]_vars

(***************************************************************************)
(* C15: a write whose ensure_table() failed answers "database unavailable" *)
(* with status 503 and executes neither the upsert nor a cache write; no   *)
(* write has executed its upsert while the flag is unset.                  *)
(* Violated: create_data goes on to its own get_db_connection() whatever   *)
(* ensure_table() did, and upserts when that connection opens.             *)
(***************************************************************************)
C15_WriteStopsOnFailedInit ==
    /\ (last.op = "write" /\ "init_failed" \in last.did)
          => /\ last.result = WriteUnavailableResult
             /\ last.did \cap {"upsert", "commit", "setex"} = {}
    /\ \A t \in Threads : pc[t] = "w_commit" => _table_ready

(***************************************************************************)
(* C16: startup() terminates.  Its loop makes at most StartupAttempts      *)
(* connection attempts, it calls ensure_table() after the first attempt    *)
(* that obtained a connection and neither loops nor calls it again, and    *)
(* in every case - the database never there, ensure_table() failing - it   *)
(* returns normally.                                                       *)
(***************************************************************************)
StartupBounded ==
    /\ \A t \in Threads :
          loc[t].op = "startup"
          => /\ loc[t].attempt <= StartupAttempts
             /\ "ensure_table" \in loc[t].did
                   => pc[t] \notin {"s_connect", "s_ensure"}
             /\ pc[t] = "s_return"
                   => \/ "ensure_table" \in loc[t].did
                      \/ loc[t].attempt = StartupAttempts
    /\ last.op = "startup"
          => /\ last.result = StartupReturned
             /\ last.attempt \in 1 .. StartupAttempts

StartupDone == last.op = "startup" /\ pc[1] = "idle"

C16_StartupTerminates == []StartupBounded /\ <>StartupDone

\* startup() has returned although an attempt found the database down and
\* ensure_table(), called once a later attempt had connected, failed.
C16_Witness ==
    /\ StartupDone
    /\ last.result = StartupReturned
    /\ last.attempt > 1
    /\ "ensure_table" \in last.did
    /\ "init_failed" \in last.did
    /\ ~_table_ready

(***************************************************************************)
(* C17: a read answered from the cache has not reached for the store.      *)
(* Violated: with the flag unset, ensure_table() connects to the store and *)
(* runs its statements before get_data looks into the cache.               *)
(***************************************************************************)
C17_CacheHitSkipsStore ==
    (last.op = "read" /\ IsItem(last.result) /\ last.result.source = "redis")
    => "store" \notin last.touched

(***************************************************************************)
(* C18: a read or a write with a non-positive id, and a write with an      *)
(* empty value, is answered with a validation error and reaches for        *)
(* neither the store nor the cache.                                        *)
(* Violated: ItemCreate is {id: int, value: str} with no constraint, and   *)
(* create_data stores the empty value.                                     *)
(***************************************************************************)
Malformed(c) == c.id <= 0 \/ (c.op = "write" /\ c.value = "")

C18_MalformedInputRejected ==
    (last.op \in {"read", "write"} /\ Malformed(last))
    => /\ last.result.kind = "validation error"
       /\ last.touched = {}
       /\ last.did \cap {"upsert", "commit", "setex"} = {}

(***************************************************************************)
(* C19: in local mode, where get_db_connection() yields no connection,     *)
(* every read and every write answers "database unavailable": none ends in *)
(* an exception and no read answers with an item, whatever the cache       *)
(* holds.                                                                  *)
(* Violated: get_data looks into the cache before it asks for a            *)
(* connection, and answers with the cached item.                           *)
(***************************************************************************)
C19_LocalModeUnavailable ==
    (last.op \in {"read", "write"} /\ APP_ENV = "local")
    => last.result.kind = "database unavailable"

(***************************************************************************)
(* C20: write atomicity.  A write whose transaction was committed answers  *)
(* with the persisted item as a success; a write that answers with an      *)
(* error has committed nothing.                                            *)
(* Violated: the r.setex of create_data follows the commit inside the same *)
(* try, so a failure of the cache is answered with status 500 after the    *)
(* row was written.                                                        *)
(***************************************************************************)
C20_WriteAtomic ==
    last.op = "write"
    => /\ "commit" \in last.did
             => last.result = CreatedResult(last.id, last.value)
       /\ ~IsItem(last.result) => "commit" \notin last.did

(***************************************************************************)
(* C21: cache population is best-effort on both paths.  A read whose       *)
(* SELECT found the row answers with the item from the store, and a write  *)
(* whose upsert was committed answers with the persisted item, whether the *)
(* cache set that follows succeeds or fails.                               *)
(* Violated: the r.setex of get_data is outside any try, the r.setex of    *)
(* create_data inside the try that answers 500.                            *)
(***************************************************************************)
C21_CacheSetIsBestEffort ==
    /\ (last.op = "read" /\ "hit" \in last.did)
          => /\ IsItem(last.result)
             /\ last.result.source = "database"
             /\ last.result.value = last.store[last.id]
    /\ (last.op = "write" /\ "commit" \in last.did)
          => last.result = CreatedResult(last.id, last.value)

(***************************************************************************)
(* C22: the status operation mutates no state.  Every step of a            *)
(* live_status call, with the store and the cache up or down, leaves the   *)
(* stored items, the relation, the open transactions, the cache entries    *)
(* and the initialization flag as they were.                               *)
(***************************************************************************)
\* Thread t takes a step of live_status.
StatusStep(t) ==
    \/ pc[t] = "idle" /\ pc'[t] \in {"st_query", "st_redis"}
    \/ pc[t] \in {"st_query", "st_redis"} /\ pc'[t] # pc[t]

C22_StatusMutatesNothing ==
    [][\A t \in Threads :
          StatusStep(t)
          => UNCHANGED <<items, tableExists, txn, cache, _table_ready>>]_vars

\* A status call that found the database and Redis connected has completed:
\* the store holds rows, the cache an entry, the flag is set.
C22_Witness ==
    /\ last.op = "status"
    /\ last.result = StatusResult("connected", "connected")
    /\ _table_ready
    /\ items # EmptyMap
    /\ cache # EmptyMap
    /\ last.store = items
    /\ last.cache = cache

(***************************************************************************)
(* C23: no store connection is held across calls.  When startup, a read,   *)
(* a write or a status call has returned (the ensure_table() it made       *)
(* included), on whichever path, every connection it opened has been       *)
(* closed.                                                                 *)
(* Violated: conn.close() is called on the success paths only; the except  *)
(* clauses of ensure_table, create_data and live_status and the exception  *)
(* that leaves get_data abandon the connection without closing it.         *)
(***************************************************************************)
C23_ConnectionsReleased ==
    last.op \in {"startup", "read", "write", "status"} => ~last.leak

(***************************************************************************)
(* C24: cache/store coherence under interleaving.  When reads and writes   *)
(* have run in any interleaving with the store and the cache available     *)
(* throughout and no entry expired, and all of them have completed, every  *)
(* cache entry item:<id> holds the value the store holds for id (stated    *)
(* for a store and a cache that hold no empty value).                      *)
(* Violated: a read that selected the row before a write committed sets    *)
(* the cache after the write did; two writes may likewise set the cache in *)
(* the order opposite to their commits.                                    *)
(***************************************************************************)
AllCompleted == calls > 0 /\ \A t \in Threads : pc[t] = "idle"

Coherent(item_id) ==
    CacheKey(item_id) \in DOMAIN cache
    => /\ item_id \in DOMAIN items
       /\ cache[CacheKey(item_id)] = items[item_id]

C24_CacheCoherent ==
    ( /\ AllCompleted
      /\ AllAvailable
      /\ events = 0
      /\ \A item_id \in DOMAIN items : items[item_id] # ""
      /\ \A key \in DOMAIN cache : cache[key] # "" )
    => \A item_id \in InputIds : Coherent(item_id)

(***************************************************************************)
(* C25: cache population never precedes the store.  Whenever a step sets   *)
(* a cache entry item:<id>, the value it sets had been committed in the    *)
(* store for that id before; the step of a write that sets the cache       *)
(* belongs to a write whose upsert has been committed.                     *)
(***************************************************************************)
\* The cache entry of key is set or changed in this step.
EntrySet(key) ==
    /\ key \in DOMAIN cache'
    /\ key \notin DOMAIN cache \/ cache'[key] # cache[key]

C25_CacheFollowsStore ==
    [][/\ \A item_id \in InputIds :
             EntrySet(CacheKey(item_id))
             => <<item_id, cache'[CacheKey(item_id)]>> \in everCommitted
       /\ \A t \in Threads :
             (pc[t] = "w_setex" /\ pc'[t] = "idle")
             => "commit" \in loc[t].did]_vars

\* A write and a read have each set a cache entry, for different ids, and
\* each entry holds a value committed for its id.
C25_Witness ==
    /\ AllCompleted
    /\ "setex" \in last.did
    /\ \A item_id \in InputIds :
          /\ CacheKey(item_id) \in DOMAIN cache
          /\ <<item_id, cache[CacheKey(item_id)]>> \in everCommitted
    /\ cache[CacheKey(4)] = "alpha"
    /\ cache[CacheKey(1)] = SeedRows[1]

(***************************************************************************)
(* C26: the seed insert is conditional.  An initialization attempt run     *)
(* against a table that holds rows inserts no seed rows and leaves every   *)
(* existing value unchanged; seed rows are inserted only into an empty     *)
(* table.                                                                  *)
(***************************************************************************)
\* Thread t's seed INSERT inserts rows in this step.
InsertsSeedRows(t) ==
    pc[t] = "e_seed" /\ pc'[t] = "e_commit" /\ txn'[t].rows # EmptyMap

\* Thread t commits its initialization attempt in this step.
CommitsInit(t) ==
    pc[t] = "e_commit" /\ loc[t].conn = "open" /\ pc'[t] # "e_commit"

C26_SeedOnlyIntoEmptyTable ==
    [][\A t \in Threads :
          /\ InsertsSeedRows(t) => items = EmptyMap
          /\ CommitsInit(t) =>
                /\ \A i \in DOMAIN items : items'[i] = items[i]
                /\ items # EmptyMap => items' = items
                /\ items = EmptyMap => items' \in {EmptyMap, SeedRows}]_vars

(***************************************************************************)
(* C27: Ready implies a committed initialization attempt of this process.  *)
(* The flag is unset when the process starts; the only step that sets it   *)
(* is the commit of an attempt that ran the schema creation and the        *)
(* conditional seed insert on an open connection, never the return of a    *)
(* failed or skipped attempt; with the flag set the table exists.          *)
(***************************************************************************)
\* The flag is set in this step.
SetsReady == ~_table_ready /\ _table_ready'

\* Thread t's attempt commits in this step what it created and inserted.
AttemptCommitted(t) ==
    /\ CommitsInit(t)
    /\ "init_failed" \notin loc'[t].did
    /\ tableExists'
    /\ items' = Overlay(items, txn[t].rows)
    /\ items = EmptyMap => items' = SeedRows
    /\ txn'[t] = NoTxn

C27_ReadyOnlyAfterCommit ==
    /\ [](_table_ready => tableExists)
    /\ [][SetsReady => \E t \in Threads : AttemptCommitted(t)]_vars

\* The attempt of startup failed, and the attempt of a later read committed
\* and set the flag.
C27_Witness ==
    /\ _table_ready
    /\ last.op = "read"
    /\ "init_failed" \notin last.did
    /\ IsItem(last.result)
    /\ last.pre.op = "startup"
    /\ "init_failed" \in last.pre.did

=============================================================================
